---- MODULE Spec2Model ----
(***************************************************************************)
(* Model of the CardDAV client of contact-manager:                         *)
(*   src/contact-manager/src/domain/card_repositories/                     *)
(*       remote_card_repository.rs                                         *)
(* RemoteCardRepository::new runs the three-stage discovery                *)
(* (addressbook_path), then create / read / delete / read_all / update     *)
(* act on {addressbook_path}{id}.vcf on the server.                        *)
(*                                                                         *)
(* Strings are sequences of text tokens; format!("{}{}", a, b) is a \o b.  *)
(* The CardDAV server and the HTTP transport are the environment: every    *)
(* request either cannot be sent or is answered by the server.             *)
(***************************************************************************)
EXTENDS Integers, Sequences, FiniteSets, TLC

VARIABLES
    pc,                 \* where the program is: "stage1", "await1", "stage2",
                        \* "await2", "stage3", "await3", "resolved", "ready",
                        \* "failed", "crashed"
    path,               \* the local `path` of addressbook_path()
    found,              \* per finished stage: did it take its path from an entry
    requests,           \* the PROPFIND requests issued so far, in order
    lastStage,          \* the discovery stage that ran last: input, outcome, result
    newResult,          \* what RemoteCardRepository::new returned
    addressbook_path,   \* the repository's field (NoRepo until constructed)
    server,             \* the server's collection: id -> raw vCard or NoCard
    last,               \* the last repository operation: request, response, result
    threads,            \* per thread sharing the repository: its call in progress
    alone               \* per id: the resource, had only the calls on that id run

vars == <<pc, path, found, requests, lastStage, newResult, addressbook_path,
          server, last, threads, alone>>

----------------------------------------------------------------------------
(* Bounds *)

NumIds == 2
NumHrefs == 2
MaxResponses == 2

----------------------------------------------------------------------------
(* Strings *)

Host == <<"http://localhost:5232">>

DefaultPath == <<"/">>

Ids == {<<"id", ToString(i)>> : i \in 1..NumIds}

\* vCards: opaque text, only transported
Raws == {<<"BEGIN:VCARD", "FN:Test", "END:VCARD">>,
         <<"BEGIN:VCARD", "FN:Other", "END:VCARD">>}

\* hrefs a server may answer with: collections (trailing "/") and one plain resource
Hrefs == {<<"/c", ToString(i), "/">> : i \in 1..NumHrefs} \cup {<<"/principal">>}

NoStatus == <<>>
StatusOk == <<"HTTP/1.1 ", "200 OK">>
StatusNotFound == <<"HTTP/1.1 ", "404 Not Found">>
PropStatuses == {NoStatus, StatusOk, StatusNotFound}

\* str::ends_with
ends_with(s, suffix) ==
    /\ Len(s) >= Len(suffix)
    /\ SubSeq(s, Len(s) - Len(suffix) + 1, Len(s)) = suffix

SeqsUpTo(S, n) == UNION {[1..k -> S] : k \in 0..n}

----------------------------------------------------------------------------
(* Results: anyhow::Result.  An error is its chain of contexts, outermost   *)
(* first; to_string() of an anyhow error is the outermost context.         *)

NoValue == <<>>
NoError == <<>>

Ok(v) == [kind |-> "Ok", value |-> v, error |-> NoError]
Err(chain) == [kind |-> "Err", value |-> NoValue, error |-> chain]
Panic(msg) == [kind |-> "Panic", value |-> NoValue, error |-> <<msg>>]

\* Result::context on a failed callee
context(cause, msg) == Err(<<msg>> \o cause)

to_string(result) == IF result.error = NoError THEN <<>> ELSE Head(result.error)

----------------------------------------------------------------------------
(* Multistatus envelopes, as decoded by quick_xml                           *)

\* Response<CurrentUserPrincipalProp>, Response<AddressbookHomeSetProp>
HrefResponses(reqPath) ==
    [href : {reqPath}, prop : [href : Hrefs], status : PropStatuses]

\* Response<AddressbookProp>
AddressbookResponses ==
    [href : Hrefs, prop : [addressbook : BOOLEAN], status : PropStatuses]

\* what a PROPFIND can come to: the request is not sent, the body is not
\* readable, the XML does not decode, or a Multistatus is decoded
Exchange(kind, responses) == [kind |-> kind, responses |-> responses]

Exchanges(Entries) ==
    {Exchange(k, <<>>) : k \in {"SendFail", "TextFail", "ParseFail"}}
        \cup {Exchange("Multistatus", rs) : rs \in SeqsUpTo(Entries, MaxResponses)}

NoExchange == Exchange("None", <<>>)

TransportFailure == <<<<"reqwest::Error">>>>
DecodeFailure == <<<<"quick_xml::DeError">>>>

----------------------------------------------------------------------------
(* Discovery *)

\* variant: takes the entry's own href, not the href of its property
fetch_current_user_principal_url_entry_href(p, ex) ==
    IF ex.kind = "SendFail"
    THEN context(TransportFailure, <<"cannot send current user principal request">>)
    ELSE IF ex.kind = "TextFail"
    THEN context(TransportFailure,
                 <<"cannot extract text body from current user principal response">>)
    ELSE IF ex.kind = "ParseFail"
    THEN context(DecodeFailure, <<"cannot parse current user principal response">>)
    ELSE IF ex.responses # <<>>
    THEN Ok(Head(ex.responses).href)
    ELSE Ok(p)

fetch_current_user_principal_url(p, ex) ==
    IF ex.kind = "SendFail"
    THEN context(TransportFailure, <<"cannot send current user principal request">>)
    ELSE IF ex.kind = "TextFail"
    THEN context(TransportFailure,
                 <<"cannot extract text body from current user principal response">>)
    ELSE IF ex.kind = "ParseFail"
    THEN context(DecodeFailure, <<"cannot parse current user principal response">>)
    ELSE IF ex.responses # <<>>
    THEN Ok(Head(ex.responses).prop.href)
    ELSE Ok(p)

fetch_addressbook_home_set_url(p, ex) ==
    IF ex.kind = "SendFail"
    THEN context(TransportFailure, <<"cannot send addressbook home set request">>)
    ELSE IF ex.kind = "TextFail"
    THEN context(TransportFailure,
                 <<"cannot extract text body from addressbook home set response">>)
    ELSE IF ex.kind = "ParseFail"
    THEN context(DecodeFailure, <<"cannot parse addressbook home set response">>)
    ELSE IF ex.responses # <<>>
    THEN Ok(Head(ex.responses).prop.href)
    ELSE Ok(p)

\* variant: the closure forgets the status
is_addressbook_marker_only(res) == res.prop.addressbook

\* variant: an entry without a status counts as valid (unwrap_or(true))
is_addressbook_absent_status_valid(res) ==
    LET valid_status ==
            IF res.status = NoStatus THEN TRUE ELSE ends_with(res.status, <<"200 OK">>)
        has_addressbook == res.prop.addressbook
    IN  valid_status /\ has_addressbook

\* the closure given to find()
is_addressbook(res) ==
    LET valid_status ==
            IF res.status = NoStatus THEN FALSE ELSE ends_with(res.status, <<"200 OK">>)
        has_addressbook == res.prop.addressbook
    IN  valid_status /\ has_addressbook

\* Iterator::find: the first element the closure accepts, if any
RECURSIVE find_addressbook(_)
find_addressbook(rs) ==
    IF rs = <<>> THEN <<>>
    ELSE IF is_addressbook(Head(rs)) THEN <<Head(rs)>>
    ELSE find_addressbook(Tail(rs))

\* variant: falls back to the default path, not to the path it was given
fetch_addressbook_url_default_fallback(p, ex) ==
    IF ex.kind = "SendFail"
    THEN context(TransportFailure, <<"cannot send addressbook request">>)
    ELSE IF ex.kind = "TextFail"
    THEN context(TransportFailure, <<"cannot extract text body from addressbook response">>)
    ELSE IF ex.kind = "ParseFail"
    THEN context(DecodeFailure, <<"cannot parse addressbook response">>)
    ELSE IF find_addressbook(ex.responses) # <<>>
    THEN Ok(find_addressbook(ex.responses)[1].href)
    ELSE Ok(DefaultPath)

\* variant: an undecodable body counts as "nothing found"
fetch_addressbook_url_swallowing_parse_error(p, ex) ==
    IF ex.kind = "SendFail"
    THEN context(TransportFailure, <<"cannot send addressbook request">>)
    ELSE IF ex.kind = "TextFail"
    THEN context(TransportFailure, <<"cannot extract text body from addressbook response">>)
    ELSE IF ex.kind = "ParseFail"
    THEN Ok(p)
    ELSE IF find_addressbook(ex.responses) # <<>>
    THEN Ok(find_addressbook(ex.responses)[1].href)
    ELSE Ok(p)

fetch_addressbook_url(p, ex) ==
    IF ex.kind = "SendFail"
    THEN context(TransportFailure, <<"cannot send addressbook request">>)
    ELSE IF ex.kind = "TextFail"
    THEN context(TransportFailure, <<"cannot extract text body from addressbook response">>)
    ELSE IF ex.kind = "ParseFail"
    THEN context(DecodeFailure, <<"cannot parse addressbook response">>)
    ELSE IF find_addressbook(ex.responses) # <<>>
    THEN Ok(find_addressbook(ex.responses)[1].href)
    ELSE Ok(p)

\* the XML bodies of the PROPFIND requests, by the property they name
CurrentUserPrincipalBody == <<"<D:current-user-principal />">>
AddressbookHomeSetBody == <<"<C:addressbook-home-set />">>
NoBody == <<>>

Propfind(url, body) == [method |-> "PROPFIND", url |-> url, body |-> body]

StageRecord(stage, input, ex, result) ==
    [stage |-> stage, input |-> input, exchange |-> ex, result |-> result]

NoStage == StageRecord(0, <<>>, NoExchange, Ok(NoValue))

NoRepo == <<>>
NoCard == <<>>
NotReturned == [kind |-> "None", value |-> NoValue, error |-> NoError]

\* a stage builds its PROPFIND and calls send(): one blocking round trip
Send(stage, url, body, awaitPc) ==
    /\ requests' = Append(requests, Propfind(url, body))
    /\ lastStage' = StageRecord(stage, path, NoExchange, NotReturned)
    /\ pc' = awaitPc
    /\ UNCHANGED <<path, found, newResult, addressbook_path, server, last, threads, alone>>

\* variant: a stage that failed is requested again, once
Returned_retrying(stage, ex, result, took, nextPc) ==
    /\ lastStage' = StageRecord(stage, path, ex, result)
    /\ IF result.kind = "Ok"
       THEN /\ path' = result.value
            /\ found' = Append(found, took)
            /\ pc' = nextPc
            /\ UNCHANGED newResult
       ELSE IF Len(requests) = stage
       THEN /\ pc' = CASE stage = 1 -> "stage1" [] stage = 2 -> "stage2" [] OTHER -> "stage3"
            /\ UNCHANGED <<newResult, path, found>>
       ELSE /\ pc' = "failed"
            /\ newResult' = result
            /\ UNCHANGED <<path, found>>
    /\ UNCHANGED <<requests, addressbook_path, server, last, threads, alone>>

\* the stage returns; addressbook_path() and new() apply `?` to its result
Returned(stage, ex, result, took, nextPc) ==
    /\ lastStage' = StageRecord(stage, path, ex, result)
    /\ IF result.kind = "Ok"
       THEN /\ path' = result.value
            /\ found' = Append(found, took)
            /\ pc' = nextPc
            /\ UNCHANGED newResult
       ELSE /\ pc' = "failed"
            /\ newResult' = result
            /\ UNCHANGED <<path, found>>
    /\ UNCHANGED <<requests, addressbook_path, server, last, threads, alone>>

CurrentUserPrincipalRequest ==
    /\ pc = "stage1"
    /\ Send(1, Host \o path, CurrentUserPrincipalBody, "await1")

CurrentUserPrincipalResponse ==
    /\ pc = "await1"
    /\ \E ex \in Exchanges(HrefResponses(path)) :
          Returned(1, ex, fetch_current_user_principal_url(path, ex),
                   ex.responses # <<>>, "stage2")

AddressbookHomeSetRequest ==
    /\ pc = "stage2"
    /\ Send(2, Host \o path, AddressbookHomeSetBody, "await2")

AddressbookHomeSetResponse ==
    /\ pc = "await2"
    /\ \E ex \in Exchanges(HrefResponses(path)) :
          Returned(2, ex, fetch_addressbook_home_set_url(path, ex),
                   ex.responses # <<>>, "stage3")

\* variant: stage 3 asks at the path stage 2 resolved
AddressbookRequest_at_path ==
    /\ pc = "stage3"
    /\ Send(3, Host \o path, NoBody, "await3")

AddressbookRequest ==
    /\ pc = "stage3"
    /\ Send(3, Host, NoBody, "await3")

AddressbookResponse ==
    /\ pc = "await3"
    /\ \E ex \in Exchanges(AddressbookResponses) :
          Returned(3, ex, fetch_addressbook_url(path, ex),
                   find_addressbook(ex.responses) # <<>>, "resolved")

\* variant: the field holds the discovered path without the host
new_path_only(host, p) == p

\* RemoteCardRepository::new: format!("{}{}", host, addressbook_path(host, client)?)
new(host, p) == host \o p

\* RemoteCardRepository::new, once addressbook_path() has returned Ok(path)
New ==
    /\ pc = "resolved"
    /\ addressbook_path' = new(Host, path)
    /\ newResult' = Ok(new(Host, path))
    /\ lastStage' = NoStage
    /\ pc' = "ready"
    /\ UNCHANGED <<path, found, requests, server, last, threads, alone>>

----------------------------------------------------------------------------
(* The server and the transport, as seen by create / read / delete          *)

StatusOK == 200

AcceptedPut(store, id) == IF store[id] = NoCard THEN 201 ELSE 204
RejectStatuses == {403, 500}
MissingStatuses == {404}
OtherGetStatuses == {204, 403, 500}

Http(sent, status, body, readable, store) ==
    [sent |-> sent, status |-> status, body |-> body, readable |-> readable,
     store |-> store]

\* send() failed: nothing reached the server
NotSent(store) == Http(FALSE, 0, NoCard, TRUE, store)

NoHttp == [sent |-> FALSE, status |-> 0, body |-> NoCard, readable |-> TRUE]

\* PUT: the server stores the body, or rejects the request and stores nothing
PutAnswers(store, id, raw) ==
    {Http(TRUE, AcceptedPut(store, id), NoCard, TRUE, [store EXCEPT ![id] = raw])}
        \cup {Http(TRUE, s, NoCard, TRUE, store) : s \in RejectStatuses}

\* GET: 200 with the stored text (whose transfer may break), or another status
GetAnswers(store, id) ==
    IF store[id] = NoCard
    THEN {Http(TRUE, s, NoCard, TRUE, store) : s \in MissingStatuses \cup OtherGetStatuses}
    ELSE {Http(TRUE, StatusOK, store[id], r, store) : r \in BOOLEAN}
            \cup {Http(TRUE, s, NoCard, TRUE, store) : s \in OtherGetStatuses}

\* DELETE: the server removes the resource, or rejects the request
DeleteAnswers(store, id) ==
    IF store[id] = NoCard
    THEN {Http(TRUE, s, NoCard, TRUE, store) : s \in MissingStatuses}
    ELSE {Http(TRUE, 204, NoCard, TRUE, [store EXCEPT ![id] = NoCard])}
            \cup {Http(TRUE, s, NoCard, TRUE, store) : s \in RejectStatuses}

----------------------------------------------------------------------------
(* impl CardRepository for RemoteCardRepository                             *)

Card(id, raw) == [id |-> id, raw |-> raw]

\* variant: every card is addressed at one fixed resource of the collection
resource_url_without_id(base, id) == base \o <<"card">> \o <<".vcf">>

\* format!("{}{}.vcf", self.addressbook_path, id)
resource_url(base, id) == base \o id \o <<".vcf">>

cannot_read_card(id) == <<"cannot ", "read", " card \"">> \o id \o <<"\"">>
cannot_read_content(id) == <<"cannot ", "read", " content of card \"">> \o id \o <<"\"">>

\* variant: create rejects a response that is not a success (error_for_status)
create_checking_status(card, http) ==
    IF ~http.sent
    THEN context(TransportFailure, <<"cannot send ", "create", " request">>)
    ELSE IF http.status \notin 200..299
    THEN Err(<<<<"cannot send ", "create", " request">>>>)
    ELSE Ok(NoValue)

create(card, http) ==
    IF ~http.sent
    THEN context(TransportFailure, <<"cannot send ", "create", " request">>)
    ELSE Ok(NoValue)

\* variant: read accepts every 2xx status (status().is_success())
read_accepting_2xx(id, http) ==
    IF ~http.sent
    THEN context(TransportFailure, cannot_read_card(id))
    ELSE IF http.status \notin 200..299
    THEN Err(<<cannot_read_card(id)>>)
    ELSE IF ~http.readable
    THEN context(TransportFailure, cannot_read_content(id))
    ELSE Ok(Card(id, http.body))

read(id, http) ==
    IF ~http.sent
    THEN context(TransportFailure, cannot_read_card(id))
    ELSE IF http.status # StatusOK
    THEN Err(<<cannot_read_card(id)>>)
    ELSE IF ~http.readable
    THEN context(TransportFailure, cannot_read_content(id))
    ELSE Ok(Card(id, http.body))

read_all == Panic(<<"not yet implemented">>)

update(card) == Panic(<<"not yet implemented">>)

delete(id, http) ==
    IF ~http.sent
    THEN context(TransportFailure, <<"cannot send ", "delete", " request">>)
    ELSE Ok(NoValue)

Request(method, url) == [method |-> method, url |-> url]

OpRecord(op, id, raw, reqs, http, result) ==
    [op |-> op, id |-> id, raw |-> raw, requests |-> reqs,
     http |-> [sent |-> http.sent, status |-> http.status, body |-> http.body,
               readable |-> http.readable],
     result |-> result]

NoOp == OpRecord("none", <<>>, <<>>, <<>>, NoHttp, NotReturned)

\* variant: a failed operation makes the repository fall back to the default path
Return_resetting_path(rec, store) ==
    /\ last' = rec
    /\ server' = store
    /\ pc' = IF rec.result.kind = "Panic" THEN "crashed" ELSE "ready"
    /\ addressbook_path' = IF rec.result.kind = "Err"
                           THEN Host \o DefaultPath
                           ELSE addressbook_path
    /\ UNCHANGED <<path, found, requests, lastStage, newResult, threads, alone>>

\* an operation returns to its caller, or unwinds with a panic
Return(rec, store) ==
    /\ last' = rec
    /\ server' = store
    /\ pc' = IF rec.result.kind = "Panic" THEN "crashed" ELSE "ready"
    /\ UNCHANGED <<path, found, requests, lastStage, newResult, addressbook_path,
                   threads, alone>>

Create ==
    /\ pc = "ready"
    /\ \E id \in Ids, raw \in Raws :
          \E http \in {NotSent(server)} \cup PutAnswers(server, id, raw) :
             Return(OpRecord("create", id, raw,
                             <<Request("PUT", resource_url(addressbook_path, id))>>,
                             http, create(Card(id, raw), http)),
                    http.store)

Read ==
    /\ pc = "ready"
    /\ \E id \in Ids :
          \E http \in {NotSent(server)} \cup GetAnswers(server, id) :
             Return(OpRecord("read", id, <<>>,
                             <<Request("GET", resource_url(addressbook_path, id))>>,
                             http, read(id, http)),
                    http.store)

ReadAll ==
    /\ pc = "ready"
    /\ Return(OpRecord("read_all", <<>>, <<>>, <<>>, NoHttp, read_all), server)

Update ==
    /\ pc = "ready"
    /\ \E id \in Ids, raw \in Raws :
          Return(OpRecord("update", id, raw, <<>>, NoHttp, update(Card(id, raw))), server)

Delete ==
    /\ pc = "ready"
    /\ \E id \in Ids :
          \E http \in {NotSent(server)} \cup DeleteAnswers(server, id) :
             Return(OpRecord("delete", id, <<>>,
                             <<Request("DELETE", resource_url(addressbook_path, id))>>,
                             http, delete(id, http)),
                    http.store)

----------------------------------------------------------------------------
(* Several threads share one repository (&self, client: &Client), each       *)
(* calling create / read / delete on an id of its own.  A call is a request  *)
(* in flight, then the server's answer and the return.                      *)

Threads == 1..NumIds

IdOf(t) == <<"id", ToString(t)>>

Idle == [pc |-> "idle", op |-> "none", raw |-> <<>>, requests |-> <<>>,
         http |-> NoHttp, result |-> NotReturned, asAlone |-> TRUE]

Method(op) == CASE op = "create" -> "PUT" [] op = "read" -> "GET" [] OTHER -> "DELETE"

Answers(op, store, id, raw) ==
    {NotSent(store)} \cup
        CASE op = "create" -> PutAnswers(store, id, raw)
          [] op = "read" -> GetAnswers(store, id)
          [] OTHER -> DeleteAnswers(store, id)

Result(op, id, raw, http) ==
    CASE op = "create" -> create(Card(id, raw), http)
      [] op = "read" -> read(id, http)
      [] OTHER -> delete(id, http)

\* the resource a request URL names on the server
Route(url) == CHOOSE id \in Ids : resource_url(addressbook_path, id) = url

Response(http) ==
    [sent |-> http.sent, status |-> http.status, body |-> http.body,
     readable |-> http.readable]

\* thread t calls an operation: the request is built and sent
Call(t) ==
    /\ pc = "ready"
    /\ threads[t].pc \in {"idle", "returned"}
    /\ \E op \in {"create", "read", "delete"} :
          \E raw \in IF op = "create" THEN Raws ELSE {<<>>} :
             threads' = [threads EXCEPT ![t] =
                 [pc |-> "called", op |-> op, raw |-> raw,
                  requests |-> <<Request(Method(op),
                                         resource_url(addressbook_path, IdOf(t)))>>,
                  http |-> NoHttp, result |-> NotReturned, asAlone |-> TRUE]]
    /\ UNCHANGED <<pc, path, found, requests, lastStage, newResult, addressbook_path,
                   server, last, alone>>

\* the request of thread t is answered (or lost) and the operation returns
Complete(t) ==
    /\ pc = "ready"
    /\ threads[t].pc = "called"
    /\ LET call == threads[t]
           target == Route(call.requests[1].url)
       IN  \E http \in Answers(call.op, server, target, call.raw) :
              LET same == {h \in Answers(call.op, alone, IdOf(t), call.raw) :
                              Response(h) = Response(http)}
              IN  /\ server' = http.store
                  /\ alone' = IF same = {}
                              THEN alone
                              ELSE [alone EXCEPT ![IdOf(t)] =
                                        (CHOOSE h \in same : TRUE).store[IdOf(t)]]
                  /\ threads' = [threads EXCEPT ![t] =
                         [call EXCEPT !.pc = "returned",
                                      !.http = Response(http),
                                      !.result = Result(call.op, IdOf(t), call.raw, http),
                                      !.asAlone = (same # {})]]
    /\ UNCHANGED <<pc, path, found, requests, lastStage, newResult, addressbook_path,
                   last>>

\* a repository constructed by new(), shared by the threads
InitShared ==
    /\ pc = "ready"
    /\ path \in {DefaultPath, <<"/principal">>}
    /\ found = <<FALSE, FALSE, path # DefaultPath>>
    /\ requests = <<Propfind(Host \o DefaultPath, CurrentUserPrincipalBody),
                    Propfind(Host \o DefaultPath, AddressbookHomeSetBody),
                    Propfind(Host, NoBody)>>
    /\ lastStage = NoStage
    /\ newResult = Ok(new(Host, path))
    /\ addressbook_path = new(Host, path)
    /\ server = [id \in Ids |-> NoCard]
    /\ last = NoOp
    /\ threads = [t \in Threads |-> Idle]
    /\ alone = server

NextShared == \E t \in Threads : Call(t) \/ Complete(t)

SpecShared == InitShared /\ [][NextShared]_vars

----------------------------------------------------------------------------

Init ==
    /\ pc = "stage1"
    /\ path = DefaultPath
    /\ found = <<>>
    /\ requests = <<>>
    /\ lastStage = NoStage
    /\ newResult = NotReturned
    /\ addressbook_path = NoRepo
    /\ server = [id \in Ids |-> NoCard]
    /\ last = NoOp
    /\ threads = [t \in Threads |-> Idle]
    /\ alone = server

Next ==
    \/ CurrentUserPrincipalRequest
    \/ CurrentUserPrincipalResponse
    \/ AddressbookHomeSetRequest
    \/ AddressbookHomeSetResponse
    \/ AddressbookRequest
    \/ AddressbookResponse
    \/ New
    \/ Create
    \/ Read
    \/ ReadAll
    \/ Update
    \/ Delete

Spec == Init /\ [][Next]_vars

----------------------------------------------------------------------------
(* Properties *)

\* the text s has the text sub in it
contains(s, sub) ==
    \E i \in 1..(Len(s) - Len(sub) + 1) : SubSeq(s, i, i + Len(sub) - 1) = sub

Quoted(verb, id) == <<"cannot ", verb, " card \"">> \o id \o <<"\"">>

\* the entries of a stage-3 response that are addressbook-marked with a status
\* ending in "200 OK"
Marked200(rs) ==
    {i \in 1..Len(rs) : ends_with(rs[i].status, <<"200 OK">>) /\ rs[i].prop.addressbook}

FirstOf(S) == CHOOSE i \in S : \A j \in S : i <= j

StageFailed == lastStage.exchange.kind \in {"SendFail", "TextFail", "ParseFail"}

\* C1: round trip: when create(card) returned Ok and the read(card.id) that
\* follows it returns a card, that card has raw = card.raw and id = card.id.
RoundTrip ==
    [][(/\ last.op = "create"
        /\ last.result.kind = "Ok"
        /\ last'.op = "read"
        /\ last'.id = last.id
        /\ last'.result.kind = "Ok")
          => (/\ last'.result.value.raw = last.raw
              /\ last'.result.value.id = last.id)]_vars

\* C2: delete then read fails: when delete(id) returned Ok, the read(id) that
\* follows it returns an error whose message contains the id, never a Card.
DeleteThenReadFails ==
    [][(/\ last.op = "delete"
        /\ last.result.kind = "Ok"
        /\ last'.op = "read"
        /\ last'.id = last.id)
          => (/\ last'.result.kind = "Err"
              /\ contains(to_string(last'.result), last.id))]_vars

\* C3: when read(id) after delete(id) fails because the card is no longer on
\* the server, the error's message is exactly: cannot get card "<id>".
ReadAfterDeleteMessage ==
    [][(/\ last.op = "delete"
        /\ last.result.kind = "Ok"
        /\ last.http.status = 204
        /\ server[last.id] = NoCard
        /\ last'.op = "read"
        /\ last'.id = last.id
        /\ last'.http.sent
        /\ last'.result.kind = "Err")
          => to_string(last'.result) = Quoted("get", last.id)]_vars

WritesIgnoreStatus ==
    last.op \in {"create", "delete"} =>
        /\ last.result.kind = "Ok" <=> last.http.sent
        /\ last.result.kind = "Err" <=> ~last.http.sent

WritesIgnoreStatusWitness ==
    /\ last.op \in {"create", "delete"}
    /\ last.http.sent
    /\ last.http.status = 500
    /\ last.result.kind = "Ok"
    /\ server[last.id] # NoCard

\* C6: read_all() and update(card) return to the caller with an explicit
\* NotImplemented error, do not crash the program and issue no HTTP request.
NotImplementedIsReturned ==
    last.op \in {"read_all", "update"} =>
        /\ last.result.kind = "Err"
        /\ pc # "crashed"
        /\ last.requests = <<>>

FirstAddressbookEntry ==
    (lastStage.stage = 3 /\ lastStage.exchange.kind = "Multistatus") =>
        LET rs == lastStage.exchange.responses
        IN  /\ lastStage.result.kind = "Ok"
            /\ path = IF Marked200(rs) # {}
                      THEN rs[FirstOf(Marked200(rs))].href
                      ELSE lastStage.input

FirstAddressbookEntryWitness ==
    /\ lastStage.stage = 3
    /\ lastStage.exchange.kind = "Multistatus"
    /\ Len(lastStage.exchange.responses) = 2
    /\ lastStage.exchange.responses[1].prop.addressbook
    /\ lastStage.exchange.responses[1].status = StatusNotFound
    /\ Marked200(lastStage.exchange.responses) = {2}
    /\ path = lastStage.exchange.responses[2].href
    /\ path # lastStage.exchange.responses[1].href
    /\ path # lastStage.input

\* C9, as stated: when the stage-3 response has no entry that is both
\* addressbook-marked and 200-status, discovery resolves to the default "/".
FallbackIsDefaultPath ==
    (/\ pc = "resolved"
     /\ Marked200(lastStage.exchange.responses) = {})
        => path = DefaultPath

\* C9, amended: when the stage-3 response has no entry that is both
\* addressbook-marked and 200-status, discovery resolves to the path output by
\* stage 2, which is "/" when stages 1 and 2 found no entry either.
FallbackIsStage2Path ==
    (/\ pc = "resolved"
     /\ Marked200(lastStage.exchange.responses) = {})
        => /\ path = lastStage.input
           /\ (~found[1] /\ ~found[2]) => path = DefaultPath

FallbackIsStage2PathWitness ==
    /\ pc = "resolved"
    /\ lastStage.exchange.responses # <<>>
    /\ Marked200(lastStage.exchange.responses) = {}
    /\ found = <<FALSE, TRUE, FALSE>>
    /\ path = lastStage.input
    /\ path # DefaultPath

\* C10: a stage whose request cannot be sent, whose body cannot be read or
\* whose XML cannot be decoded returns an error and does not fall back to its
\* input path; the error is what RemoteCardRepository::new returns, and no
\* repository exists.
StageFailurePropagates ==
    /\ StageFailed =>
          /\ lastStage.result.kind = "Err"
          /\ pc = "failed"
          /\ newResult = lastStage.result
    /\ pc = "failed" =>
          /\ StageFailed
          /\ newResult.kind = "Err"
          /\ addressbook_path = NoRepo
          /\ last = NoOp

StageFailurePropagatesWitness ==
    /\ pc = "failed"
    /\ lastStage.stage = 3
    /\ lastStage.exchange.kind = "ParseFail"
    /\ to_string(newResult) = <<"cannot parse addressbook response">>
    /\ addressbook_path = NoRepo

\* the entry a finished stage took its path from (none: the stage fell back)
UsedEntries ==
    LET rs == lastStage.exchange.responses
    IN  IF lastStage.exchange.kind # "Multistatus" \/ lastStage.result.kind # "Ok"
        THEN {}
        ELSE IF lastStage.stage \in {1, 2}
        THEN {rs[i] : i \in {j \in 1..Len(rs) : j = 1}}
        ELSE IF lastStage.stage = 3
        THEN {rs[i] : i \in {j \in Marked200(rs) : j = FirstOf(Marked200(rs))}}
        ELSE {}

Constructed == pc \in {"ready", "crashed"}

\* C11: after a successful construction addressbook_path is the host followed
\* by the path discovery resolved, and the host followed by "/" when none of
\* the three stages found an entry.
AddressbookPathIsHostAndPath ==
    Constructed =>
        /\ addressbook_path = Host \o path
        /\ newResult.kind = "Ok"
        /\ found = <<FALSE, FALSE, FALSE>> => addressbook_path = Host \o <<"/">>

AddressbookPathIsHostAndPathWitness ==
    /\ pc = "ready"
    /\ last = NoOp
    /\ found = <<FALSE, FALSE, FALSE>>
    /\ addressbook_path = <<"http://localhost:5232", "/">>

\* C12: after construction, whatever create, read and delete calls were made
\* and however they ended, addressbook_path is the value construction gave it
\* and the only PROPFIND requests ever issued are the three of construction.
AddressbookPathIsFixed ==
    Constructed =>
        /\ addressbook_path = newResult.value
        /\ Len(requests) = 3
        /\ \A i \in 1..Len(last.requests) : last.requests[i].method # "PROPFIND"

AddressbookPathIsFixedWitness ==
    /\ pc = "ready"
    /\ last.op = "read"
    /\ last.result.kind = "Err"
    /\ addressbook_path = newResult.value
    /\ addressbook_path # Host \o DefaultPath

\* C13: for every constructed repository addressbook_path ends in "/", and
\* the URL of every create, read and delete request is addressbook_path
\* followed by the id and ".vcf".
AddressbookPathEndsInSlash ==
    Constructed =>
        /\ ends_with(addressbook_path, <<"/">>)
        /\ \A i \in 1..Len(last.requests) :
              last.requests[i].url = addressbook_path \o last.id \o <<".vcf">>

\* C14: no stage takes its resolved path from an entry whose status is present
\* and does not end with "200 OK".
UsedEntryHasStatus200 ==
    \A e \in UsedEntries : e.status = NoStatus \/ ends_with(e.status, <<"200 OK">>)

\* C15: every error create, read or delete returns because the request could
\* not be sent or the response could not be read names, in the context the
\* operation gave it, both the operation and the id of the resource.
TransportErrorNamesOperationAndId ==
    (/\ last.op \in {"create", "read", "delete"}
     /\ last.result.kind = "Err"
     /\ (~last.http.sent \/ ~last.http.readable))
        => /\ contains(to_string(last.result), <<last.op>>)
           /\ contains(to_string(last.result), last.id)

\* the requests of a construction that went through all three stages
DiscoveryBodies == <<CurrentUserPrincipalBody, AddressbookHomeSetBody, NoBody>>

\* C17: construction issues the PROPFIND for current-user-principal, then for
\* addressbook-home-set, then for the addressbook collection, each at most
\* once and each only after the stage before it returned Ok; after a failed
\* stage no further request is issued and none is repeated; each create, read
\* and delete call issues exactly one HTTP request.
RequestsInOrderOnce ==
    /\ Len(requests) <= 3
    /\ \A i \in 1..Len(requests) :
          /\ requests[i].method = "PROPFIND"
          /\ requests[i].body = DiscoveryBodies[i]
          /\ Len(found) >= i - 1
    /\ Len(found) <= Len(requests)
    /\ pc = "failed" => (Len(requests) = lastStage.stage /\ Len(found) = lastStage.stage - 1)
    /\ last.op \in {"create", "read", "delete"} => Len(last.requests) = 1

RequestsInOrderOnceWitness ==
    /\ pc = "failed"
    /\ lastStage.stage = 2
    /\ lastStage.exchange.kind = "SendFail"
    /\ Len(requests) = 2
    /\ found = <<TRUE>>

\* C18: stage 1 sends its PROPFIND to the host followed by "/", stage 2 to the
\* host followed by the path stage 1 resolved, and stage 3 to the bare host
\* whatever stages 1 and 2 resolved; stage 3 uses the stage-2 path only as the
\* result it falls back to.
RequestUrls ==
    /\ Len(requests) >= 1 => requests[1].url = Host \o <<"/">>
    /\ lastStage.stage = 2 => requests[2].url = Host \o lastStage.input
    /\ (lastStage.stage = 1 /\ lastStage.result.kind = "Ok")
          => path = lastStage.result.value
    /\ Len(requests) >= 3 => requests[3].url = Host
    /\ (lastStage.stage = 3 /\ lastStage.result.kind = "Ok")
          => path \in {lastStage.input}
                  \cup {lastStage.exchange.responses[i].href :
                           i \in 1..Len(lastStage.exchange.responses)}

RequestUrlsWitness ==
    /\ lastStage.stage = 3
    /\ lastStage.result.kind = "Ok"
    /\ requests[2].url # Host \o <<"/">>
    /\ requests[3].url = Host
    /\ lastStage.input # DefaultPath
    /\ Host \o lastStage.input # requests[2].url
    /\ lastStage.exchange.responses = <<>>
    /\ path = lastStage.input

\* C19: in the addressbook-collection stage an entry without a status is never
\* selected, marked as addressbook or not: when every addressbook-marked entry
\* lacks a status the stage returns the path from stage 2.
AbsentStatusNeverSelected ==
    (/\ lastStage.stage = 3
     /\ lastStage.exchange.kind = "Multistatus"
     /\ \A i \in 1..Len(lastStage.exchange.responses) :
           lastStage.exchange.responses[i].prop.addressbook
              => lastStage.exchange.responses[i].status = NoStatus)
        => /\ lastStage.result = Ok(lastStage.input)
           /\ path = lastStage.input
           /\ found[3] = FALSE

AbsentStatusNeverSelectedWitness ==
    /\ lastStage.stage = 3
    /\ lastStage.exchange.kind = "Multistatus"
    /\ Len(lastStage.exchange.responses) = 1
    /\ lastStage.exchange.responses[1].prop.addressbook
    /\ lastStage.exchange.responses[1].status = NoStatus
    /\ lastStage.exchange.responses[1].href # lastStage.input
    /\ path = lastStage.input

\* C16: create, read and delete called concurrently on one repository, each
\* thread on an id of its own, do not interfere: under every interleaving each
\* call on an id gets an answer it could have got had the calls on the other
\* ids not run, returns the result the operation gives for that answer, and
\* every resource is in the state the calls on its id alone leave it in.
CallsOnOtherIdsDoNotInterfere ==
    /\ \A id \in Ids : server[id] = alone[id]
    /\ \A t \in Threads :
          threads[t].pc = "returned" =>
             /\ threads[t].asAlone
             /\ threads[t].result.kind \in {"Ok", "Err"}
             /\ threads[t].result.kind = "Ok" /\ threads[t].op = "read"
                   => threads[t].result.value = [id |-> IdOf(t), raw |-> threads[t].http.body]

CallsOnOtherIdsDoNotInterfereWitness ==
    /\ threads[1].pc = "returned"
    /\ threads[1].op = "read"
    /\ threads[1].result.kind = "Ok"
    /\ threads[2].pc = "called"
    /\ threads[2].op = "delete"
    /\ server[IdOf(1)] # NoCard
    /\ server[IdOf(2)] # NoCard
    /\ server[IdOf(1)] # server[IdOf(2)]

====
